---- MODULE Spec2Model ----
(***************************************************************************)
(* Model of pemattern/launcher: a terminal application launcher.           *)
(*                                                                         *)
(* Two front ends live in the sources: `Launcher` (src/launcher.rs, with   *)
(* the widgets under src/widgets/) and the older `App` (src/app.rs).  The  *)
(* variable `program` says which of the two is running.                    *)
(*                                                                         *)
(* Strings are sequences of one-character strings.  The alphabet is ASCII, *)
(* so byte length and character count coincide.                            *)
(***************************************************************************)
EXTENDS Integers, Sequences, FiniteSets, TLC

\* ------------------------------------------------------------------ bounds
MaxNameLen == 2
MaxFilterLen == 2
MaxApps == 2
MaxWidth == 2
MaxForks == 1
MaxReloads == 2
MaxFiles == 2
MaxSelected == 2

\* ----------------------------------------------------------------- strings
\* The characters filter texts are made of, the characters names are made
\* of, and the characters typed in a session.
Alphabet == {"a", "B", "b"}
NameAlphabet == {"a", "B"}
TypedAlphabet == {"a", "b"}

\* Code point of a character (the order String::cmp compares by).
Code(c) ==
  CASE c = "A" -> 65
    [] c = "B" -> 66
    [] c = "a" -> 97
    [] c = "b" -> 98

\* char::to_lowercase on the alphabet.
LowerChar(c) ==
  CASE c = "A" -> "a"
    [] c = "B" -> "b"
    [] OTHER -> c

\* str::to_lowercase
to_lowercase(s) == [i \in 1..Len(s) |-> LowerChar(s[i])]

\* Does pat occur in s starting at position i (1-based)?
RECURSIVE MatchAt(_, _, _, _)
MatchAt(s, pat, i, j) ==
  IF j > Len(pat) THEN TRUE
  ELSE IF s[i + j - 1] # pat[j] THEN FALSE
  ELSE MatchAt(s, pat, i, j + 1)

\* str::contains(&str): scan the start positions from the left.
RECURSIVE ContainsFrom(_, _, _)
ContainsFrom(s, pat, i) ==
  IF i + Len(pat) - 1 > Len(s) THEN FALSE
  ELSE IF MatchAt(s, pat, i, 1) THEN TRUE
  ELSE ContainsFrom(s, pat, i + 1)

contains(s, pat) == ContainsFrom(s, pat, 1)

\* Ord for str: lexicographic by code point, a proper prefix is smaller.
\* Returns "Less", "Equal" or "Greater".
RECURSIVE CmpFrom(_, _, _)
CmpFrom(s, t, i) ==
  IF i > Len(s) /\ i > Len(t) THEN "Equal"
  ELSE IF i > Len(s) THEN "Less"
  ELSE IF i > Len(t) THEN "Greater"
  ELSE IF Code(s[i]) < Code(t[i]) THEN "Less"
  ELSE IF Code(s[i]) > Code(t[i]) THEN "Greater"
  ELSE CmpFrom(s, t, i + 1)

cmp(s, t) == CmpFrom(s, t, 1)

\* All strings over the characters of chars, of length lo..hi.
Strings(chars, lo, hi) == UNION {[1..n -> chars] : n \in lo..hi}

\* ------------------------------------------------------------ applications
\* Application / DesktopEntry: display name, terminal flag, source path.
Application(n, t, p) == [name |-> n, terminal |-> t, path |-> p]

\* matches with the filter text compared as typed.
matches_raw_filter(app, text) == contains(to_lowercase(app.name), text)

\* The closure given to Iterator::filter by both front ends:
\* name.to_lowercase().contains(&filter.to_lowercase())
matches(app, text) == contains(to_lowercase(app.name), to_lowercase(text))

\* Iterator::filter(..).collect(): the matching elements, in catalog order.
RECURSIVE FilterFrom(_, _, _)
FilterFrom(apps, text, i) ==
  IF i > Len(apps) THEN <<>>
  ELSE IF matches(apps[i], text) THEN <<apps[i]>> \o FilterFrom(apps, text, i + 1)
  ELSE FilterFrom(apps, text, i + 1)

\* The two comparators handed to sort_by:
\*   ci = TRUE   a.name.to_lowercase().cmp(&b.name.to_lowercase())
\*   ci = FALSE  a.name.cmp(&b.name)
compare(a, b, ci) ==
  IF ci THEN cmp(to_lowercase(a.name), to_lowercase(b.name))
  ELSE cmp(a.name, b.name)

\* InsertSorted of an unstable sort: the element goes before its equals.
RECURSIVE InsertSorted_unstable(_, _, _)
InsertSorted_unstable(sorted, x, ci) ==
  IF sorted = <<>> THEN <<x>>
  ELSE IF compare(Head(sorted), x, ci) # "Less" THEN <<x>> \o sorted
  ELSE <<Head(sorted)>> \o InsertSorted_unstable(Tail(sorted), x, ci)

\* slice::sort_by is a stable sort: each element goes after the elements
\* that do not compare Greater than it.
RECURSIVE InsertSorted(_, _, _)
InsertSorted(sorted, x, ci) ==
  IF sorted = <<>> THEN <<x>>
  ELSE IF compare(Head(sorted), x, ci) = "Greater" THEN <<x>> \o sorted
  ELSE <<Head(sorted)>> \o InsertSorted(Tail(sorted), x, ci)

RECURSIVE SortUpTo(_, _, _)
SortUpTo(apps, ci, n) ==
  IF n = 0 THEN <<>>
  ELSE InsertSorted(SortUpTo(apps, ci, n - 1), apps[n], ci)

sort_by(apps, ci) == SortUpTo(apps, ci, Len(apps))

\* ApplicationListState::update: the new value of filtered_applications.
update(apps, text) == sort_by(FilterFrom(apps, text, 1), TRUE)

\* The filter in <&mut App as Widget>::render: the new value of
\* filtered_desktop_apps.
render_filter(apps, text) == sort_by(FilterFrom(apps, text, 1), FALSE)

\* ------------------------------------------------------------------ input
\* InputState::default
InputState_default == [filter |-> <<>>, cursor_index |-> 0, overflow |-> 0, width |-> 32]

Min(a, b) == IF a < b THEN a ELSE b
saturating_sub(a, b) == IF a > b THEN a - b ELSE 0

\* A character whose UTF-8 encoding takes two bytes (U+00E9); every
\* character of Alphabet takes one.
WideChar == "U+00E9"

\* char::len_utf8
len_utf8(c) == IF c = WideChar THEN 2 ELSE 1

\* String::len: the length of the text in bytes.
RECURSIVE len(_)
len(str) == IF str = <<>> THEN 0 ELSE len_utf8(Head(str)) + len(Tail(str))

\* str::is_char_boundary(index)
is_char_boundary(str, index) ==
  \E k \in 0..Len(str) : len(SubSeq(str, 1, k)) = index

\* InputState::clamp_cursor
clamp_cursor(s, new_cursor_pos) == Min(new_cursor_pos, Min(Len(s.filter), s.width))

\* InputState::byte_index: the byte offset of the character numbered
\* cursor_index + overflow, or the end of the text; given here as the number
\* of characters before that offset, which is what insert takes.
byte_index(s) == Min(s.cursor_index + s.overflow, Len(s.filter))

\* InputState::set_overflow
set_overflow(s) == [s EXCEPT !.overflow = saturating_sub(len(s.filter), s.width)]

\* InputState::move_cursor_left
move_cursor_left(s) ==
  LET t == IF s.cursor_index = 0 /\ s.overflow > 0
           THEN [s EXCEPT !.overflow = saturating_sub(s.overflow, 1)]
           ELSE s
  IN  [t EXCEPT !.cursor_index = clamp_cursor(t, saturating_sub(t.cursor_index, 1))]

\* InputState::move_cursor_right
move_cursor_right(s) ==
  LET max_overflow == saturating_sub(len(s.filter), s.width)
      t == IF s.cursor_index = s.width /\ s.overflow < max_overflow
           THEN [s EXCEPT !.overflow = s.overflow + 1]
           ELSE s
  IN  [t EXCEPT !.cursor_index = clamp_cursor(t, t.cursor_index + 1)]

\* String::insert
insert(str, index, ch) == SubSeq(str, 1, index) \o <<ch>> \o SubSeq(str, index + 1, Len(str))

\* chars().take(n).chain(chars().skip(m)).collect()
take_chain_skip(str, n, m) == SubSeq(str, 1, Min(n, Len(str))) \o SubSeq(str, m + 1, Len(str))

\* InputState::enter_char
enter_char(s, new_char) ==
  LET t == set_overflow([s EXCEPT !.filter = insert(s.filter, byte_index(s), new_char)])
  IN  IF t.overflow = 0 THEN move_cursor_right(t) ELSE t

\* InputState::delete_char
delete_char(s) ==
  IF s.cursor_index + s.overflow = 0 THEN s
  ELSE LET current_index == s.cursor_index + s.overflow
           t == [s EXCEPT !.filter = take_chain_skip(s.filter, current_index - 1, current_index)]
           u == IF t.overflow = 0 THEN move_cursor_left(t) ELSE t
       IN  set_overflow(u)

\* String::remove(index) panics when the byte index is not inside the string
\* or not at the start of a character; this is the condition under which
\* InputState::right_delete_char reaches that panic.
right_delete_char_panics(s) ==
  LET index == s.cursor_index + s.overflow
  IN  /\ index # len(s.filter)
      /\ ~(index < len(s.filter) /\ is_char_boundary(s.filter, index))

\* String::remove(index): the text without the character that starts at
\* byte index.
remove(str, index) ==
  LET k == CHOOSE k \in 1..Len(str) : len(SubSeq(str, 1, k - 1)) = index
  IN  take_chain_skip(str, k - 1, k)

\* InputState::right_delete_char (when it does not panic)
right_delete_char(s) ==
  IF s.cursor_index + s.overflow = len(s.filter) THEN s
  ELSE LET index == s.cursor_index + s.overflow
           t == IF s.overflow > 0 THEN move_cursor_right(s) ELSE s
       IN  set_overflow([t EXCEPT !.filter = remove(t.filter, index)])

\* The slice filter[overflow..len] in <Input as StatefulWidget>::render
\* panics when overflow lies beyond len = min(filter.len(), width + overflow)
\* or an end of the slice is not at the start of a character.
input_render_panics(s) ==
  LET end == Min(len(s.filter), s.width + s.overflow)
  IN  /\ len(s.filter) # 0
      /\ \/ s.overflow > end
         \/ ~is_char_boundary(s.filter, s.overflow)
         \/ ~is_char_boundary(s.filter, end)

\* The App front end keeps only filter and character_index (held in
\* cursor_index); its cursor is clamped to the character count.
App_clamp_cursor(s, new_cursor_pos) == Min(new_cursor_pos, Len(s.filter))

\* App::move_cursor_left
App_move_cursor_left(s) ==
  [s EXCEPT !.cursor_index = App_clamp_cursor(s, saturating_sub(s.cursor_index, 1))]

\* App::move_cursor_right
App_move_cursor_right(s) ==
  [s EXCEPT !.cursor_index = App_clamp_cursor(s, s.cursor_index + 1)]

\* App::enter_char
App_enter_char(s, new_char) ==
  App_move_cursor_right(
    [s EXCEPT !.filter = insert(s.filter, Min(s.cursor_index, Len(s.filter)), new_char)])

\* App::delete_char
App_delete_char(s) ==
  IF s.cursor_index = 0 THEN s
  ELSE App_move_cursor_left(
         [s EXCEPT !.filter = take_chain_skip(s.filter, s.cursor_index - 1, s.cursor_index)])

\* App::right_delete_char
App_right_delete_char(s) ==
  IF s.cursor_index = Len(s.filter) THEN s
  ELSE [s EXCEPT !.filter = take_chain_skip(s.filter, s.cursor_index, s.cursor_index + 1)]

\* ------------------------------------------------------------- list state
\* ListState.selected is <<>> for None and <<i>> for Some(i), i counted from 0.
None == <<>>
Some(i) == <<i>>

\* usize::MAX, scaled to the integers of the model checker; it is only ever
\* compared with list lengths.
USIZE_MAX == 2147483647

\* ListState::select_first
select_first(sel) == Some(0)

\* ListState::select_next
select_next(sel) == IF sel = None THEN Some(0) ELSE Some(sel[1] + 1)

\* ListState::select_previous
select_previous(sel) == IF sel = None THEN Some(USIZE_MAX) ELSE Some(saturating_sub(sel[1], 1))

\* The selection after rendering a List of n items: the widgets first select
\* the first item when nothing is selected, then List::render drops the
\* selection of an empty list and pulls an index past the end back to the
\* last item.  List::render returns before either when the area it is given
\* has no cell (area_empty), and then the selection stays as it was.
render_selected(sel, n, area_empty) ==
  LET s1 == IF sel = None THEN select_first(sel) ELSE sel
  IN  IF area_empty THEN s1
      ELSE IF n = 0 THEN None
      ELSE IF s1[1] >= n THEN Some(n - 1)
      ELSE s1

\* ------------------------------------------------------------------ state
VARIABLES
  program,                \* "launcher" (Launcher::run) or "app" (App::run)
  applications,           \* ApplicationListState.applications / App.desktop_apps
  filtered_applications,  \* .filtered_applications / App.filtered_desktop_apps
  selected,               \* list_state.selected()
  input,                  \* InputState / App.filter and App.character_index
  area_width,             \* width of the area the input widget is drawn in
  mode,                   \* RunMode / App.should_exit
  pc,                     \* where the launcher process is
  exit_status,            \* <<>> while it runs, <<code>> once it has exited
  restored,               \* ratatui::restore() was called
  proc,                   \* the process table: pid -> parent pid
  terminal_pid,           \* the pid the ancestry lookup produced, <<>> before
  children,               \* the copies made by fork so far, oldest first
  signals,                \* the signals sent so far, in order
  last_wait,              \* what the last waitpid(child, WNOHANG) returned
  polls,                  \* number of waitpid calls in this launch
  sleeps,                 \* number of thread::sleep calls in this launch
  launch,                 \* the selection being launched and the steps it took
  fs,                     \* the application directories App::new scans
  config,                 \* LauncherState.config
  pending,                \* reload notifications waiting in the channel
  loads,                  \* what Config::load returned, one entry per reload
  list_area_empty         \* the terminal is too small to give the list a cell

ui == <<applications, filtered_applications, selected, input, area_width>>
os == <<proc, terminal_pid, children, signals, last_wait, polls, sleeps>>
env == <<fs, config, pending, loads, list_area_empty>>
vars == <<program, ui, mode, pc, exit_status, restored, os, launch, env>>

\* A copy made by fork: where it is, and what its memory holds of the
\* launch that made it (the looked-up pid and the selected application).
\* exec is "pending" until the copy has attempted its exec, then "ok" or
\* "failed"; exec_at is the number of polls the parent had made by then.
Forked(ppid, app) ==
  [state |-> "forked", ppid |-> ppid, app |-> app, exec |-> "pending", exec_at |-> 0]

\* The state of the copy made by the latest fork, the one the parent holds
\* the pid of.
child == IF children = <<>> THEN "none" ELSE children[Len(children)].state

\* The copy made by the latest fork moves to state c.
SetChild(c) == [children EXCEPT ![Len(children)].state = c]

\* The process tables an ancestry lookup may find.  "pid0" is parent pid 0
\* (no parent); "unreadable" is a /proc entry that cannot be read.
ProcTables == {
  \* terminal emulator -> shell -> launcher
  [launcher |-> "shell", shell |-> "terminal", terminal |-> "init", init |-> "pid0"],
  \* the terminal is gone, the shell was reparented
  [launcher |-> "shell", shell |-> "init", terminal |-> "init", init |-> "pid0"],
  \* the shell is gone, the launcher was reparented
  [launcher |-> "init", shell |-> "init", terminal |-> "init", init |-> "pid0"],
  \* the shell's entry cannot be read
  [launcher |-> "shell", shell |-> "unreadable", terminal |-> "init", init |-> "pid0"] }

\* The catalogs the process model is run on.
Catalogs == {
  <<>>,
  <<Application(<<"a">>, TRUE, 1)>>,
  <<Application(<<"B">>, FALSE, 1)>>,
  <<Application(<<"a">>, FALSE, 1), Application(<<"B">>, TRUE, 2)>> }

\* launch.steps is the set of steps taken for the selection, launch.order the
\* same steps in the order the code took them.
NoLaunch == [app |-> <<>>, steps |-> {}, order |-> <<>>]

\* The configurations Config::load may return.
Configs == {"c1", "c2"}

\* No application directory exists.
NoFileSystem == [home |-> TRUE, dirs |-> <<[status |-> "missing", entries |-> <<>>],
                                          [status |-> "missing", entries |-> <<>>]>>]

\* Launcher::new with ApplicationListState::default, App::new
Init ==
  /\ program \in {"launcher", "app"}
  /\ applications \in Catalogs
  /\ filtered_applications = applications
  /\ selected = None
  /\ input = IF program = "launcher" THEN InputState_default
             ELSE [InputState_default EXCEPT !.width = 0]
  /\ area_width \in IF program = "launcher" THEN 1..MaxWidth ELSE {0}
  /\ mode = "Running"
  /\ pc = "draw"
  /\ exit_status = <<>>
  /\ restored = FALSE
  /\ proc = [launcher |-> "shell", shell |-> "terminal", terminal |-> "init", init |-> "pid0"]
  /\ terminal_pid = <<>>
  /\ children = <<>>
  /\ signals = <<>>
  /\ last_wait = "none"
  /\ polls = 0
  /\ sleeps = 0
  /\ launch = NoLaunch
  /\ fs = NoFileSystem
  /\ config = "c1"
  /\ pending = 0
  /\ loads = <<>>
  /\ list_area_empty = FALSE

\* A panic ends the process with status 101.
Panic ==
  /\ pc' = "panicked"
  /\ exit_status' = <<101>>

\* ----------------------------------------------------------- the main loop
\* Launcher::run, RunMode::Exit => break; App::run, should_exit
Quit ==
  /\ pc = "draw"
  /\ mode = "Exit"
  /\ pc' = "exited"
  /\ exit_status' = <<0>>
  /\ UNCHANGED <<env, program, ui, mode, restored, os, launch>>

\* The file watcher's thread sends () on the channel Launcher::run holds the
\* receiver of, whenever the configuration file changes.
Notify ==
  /\ program = "launcher"
  /\ exit_status = <<>>
  /\ pending + Len(loads) < MaxReloads
  /\ pending' = pending + 1
  /\ UNCHANGED <<program, ui, mode, pc, exit_status, restored, os, launch,
                 fs, config, loads, list_area_empty>>

\* LauncherState::reload_config
reload_config_keep(old, new) == old
reload_config(old, new) == new

\* Launcher::run, RunMode::Running with receiver.try_recv() == Ok(()):
\* terminal.clear(), then reload_config(Config::load()); the draw follows.
Launcher_reload ==
  /\ program = "launcher"
  /\ mode = "Running"
  /\ pc = "draw"
  /\ pending > 0
  /\ pending' = pending - 1
  /\ \E loaded \in Configs :
       /\ config' = reload_config(config, loaded)
       /\ loads' = Append(loads, loaded)
  /\ pc' = "reloaded"
  /\ UNCHANGED <<program, ui, mode, exit_status, restored, os, launch, fs,
                 list_area_empty>>

\* Launcher::draw: Input::render stores the width, ApplicationList::render
\* selects the first entry when none is selected and renders the List.
Launcher_draw ==
  /\ program = "launcher"
  /\ mode = "Running"
  /\ pc = "reloaded" \/ (pc = "draw" /\ pending = 0)
  /\ LET s == [input EXCEPT !.width = area_width]
     IN  /\ input' = s
         /\ IF input_render_panics(s)
            THEN Panic /\ UNCHANGED selected
            ELSE /\ selected' = render_selected(selected, Len(filtered_applications),
                                                list_area_empty)
                 /\ pc' = "input"
                 /\ UNCHANGED exit_status
  /\ UNCHANGED <<env, program, applications, filtered_applications, area_width, mode,
                 restored, os, launch>>

\* App::draw: render recomputes and sorts the filtered list, selects the first
\* entry when none is selected and renders the List.
App_draw ==
  /\ program = "app"
  /\ pc = "draw"
  /\ mode = "Running"
  /\ filtered_applications' = render_filter(applications, input.filter)
  /\ selected' = render_selected(selected, Len(filtered_applications'), list_area_empty)
  /\ pc' = "input"
  /\ UNCHANGED <<env, program, applications, input, area_width, mode, exit_status,
                 restored, os, launch>>

\* ---------------------------------------------------------- key handlers
\* Launcher::handle_input / App::handle_events read one event, then the loop
\* draws again.
AwaitingKey == pc = "input"

\* What a handler that only edits the session leaves alone.
KeyDone ==
  /\ pc' = "draw"
  /\ UNCHANGED <<env, program, applications, filtered_applications, area_width,
                 exit_status, restored, os, launch>>

\* KeyCode::Char(to_insert)
KeyChar(c) ==
  /\ AwaitingKey
  /\ Len(input.filter) < MaxFilterLen
  /\ input' = IF program = "launcher" THEN enter_char(input, c) ELSE App_enter_char(input, c)
  /\ KeyDone
  /\ UNCHANGED <<selected, mode>>

\* KeyCode::Backspace
KeyBackspace ==
  /\ AwaitingKey
  /\ input' = IF program = "launcher" THEN delete_char(input) ELSE App_delete_char(input)
  /\ KeyDone
  /\ UNCHANGED <<selected, mode>>

\* KeyCode::Delete
KeyDelete ==
  /\ AwaitingKey
  /\ IF program = "launcher" /\ right_delete_char_panics(input)
     THEN /\ Panic
          /\ UNCHANGED <<env, program, ui, mode, restored, os, launch>>
     ELSE /\ input' = IF program = "launcher" THEN right_delete_char(input)
                      ELSE App_right_delete_char(input)
          /\ KeyDone
          /\ UNCHANGED <<selected, mode>>

\* KeyCode::Left
KeyLeft ==
  /\ AwaitingKey
  /\ input' = IF program = "launcher" THEN move_cursor_left(input)
              ELSE App_move_cursor_left(input)
  /\ KeyDone
  /\ UNCHANGED <<selected, mode>>

\* KeyCode::Right
KeyRight ==
  /\ AwaitingKey
  /\ input' = IF program = "launcher" THEN move_cursor_right(input)
              ELSE App_move_cursor_right(input)
  /\ KeyDone
  /\ UNCHANGED <<selected, mode>>

\* KeyCode::Down | KeyCode::Tab (Launcher); KeyCode::Down, Ctrl-j (App)
KeyDown ==
  /\ AwaitingKey
  /\ IF selected = None THEN TRUE ELSE selected[1] < MaxSelected
  /\ selected' = select_next(selected)
  /\ KeyDone
  /\ UNCHANGED <<input, mode>>

\* KeyCode::Up | KeyCode::BackTab (Launcher); KeyCode::Up, Ctrl-k (App)
KeyUp ==
  /\ AwaitingKey
  /\ selected' = select_previous(selected)
  /\ KeyDone
  /\ UNCHANGED <<input, mode>>

\* KeyCode::Esc
KeyEsc ==
  /\ AwaitingKey
  /\ mode' = "Exit"
  /\ KeyDone
  /\ UNCHANGED <<selected, input>>

\* Any other event
KeyOther ==
  /\ AwaitingKey
  /\ KeyDone
  /\ UNCHANGED <<selected, input, mode>>

\* ----------------------------------------------------------------- launch
Step(l, names) ==
  [l EXCEPT !.steps = @ \cup {names[i] : i \in 1..Len(names)}, !.order = @ \o names]
Launching(app, names) ==
  [app |-> <<app>>, steps |-> {names[i] : i \in 1..Len(names)}, order |-> names]

\* A signal sent: to which pid, which signal, by which process, and for the
\* launch of which application.
Signal(to, sig, from, app) == [to |-> to, sig |-> sig, from |-> from, app |-> app]

\* if application.terminal (Launcher), if app.terminal (App): the flag that
\* routes a selection to replacement in place.
is_terminal_app_negated(application) == ~application.terminal
is_terminal_app(application) == application.terminal

\* The pid the parent signals: Pid::from_raw(terminal_pid).
kill_target_shell(looked_up, table) == table["launcher"]
kill_target(looked_up, table) == looked_up[1]

\* A child that has not ended: waitpid(child, WNOHANG) reports StillAlive.
Alive(c) == c \in {"forked", "target", "loop"}

\* The outcome of waitpid(child, WNOHANG) for a child in state c: a child
\* that ended is reported once (Exited), which collects it; after that the
\* call fails with ECHILD.
waitpid_uncollected(c) ==
  IF Alive(c) THEN "StillAlive"
  ELSE "Exited"
waitpid(c) ==
  IF Alive(c) THEN "StillAlive"
  ELSE IF c = "exited" THEN "Exited"
  ELSE "Err"

\* Launcher::select_application, from KeyCode::Enter up to and including the
\* fork.  execvp and fork succeed or fail as the system decides.
Launcher_select_application ==
  /\ program = "launcher"
  /\ AwaitingKey
  /\ UNCHANGED <<env, program, ui, mode, signals, last_wait>>
  /\ polls' = 0
  /\ sleeps' = 0
  /\ IF selected = None
     THEN \* let Some(application) = ... else { return }
          /\ pc' = "draw"
          /\ launch' = NoLaunch
          /\ UNCHANGED <<exit_status, restored, proc, terminal_pid, children>>
     ELSE IF selected[1] >= Len(filtered_applications)
     THEN \* filtered_applications[i] out of bounds
          /\ Panic
          /\ launch' = NoLaunch
          /\ UNCHANGED <<restored, proc, terminal_pid, children>>
     ELSE LET application == filtered_applications[selected[1] + 1] IN
          IF is_terminal_app(application)
          THEN \* ratatui::restore(); let _ = execvp(..); return
               /\ restored' = TRUE
               /\ launch' = Launching(application, <<"restore", "exec">>)
               /\ \E exec_ok \in BOOLEAN :
                    pc' = IF exec_ok THEN "replaced" ELSE "draw"
               /\ UNCHANGED <<exit_status, proc, terminal_pid, children>>
          ELSE \* the process table is what it is when the lookup reads it
               /\ Len(children) < MaxForks
               /\ \E table \in ProcTables :
                    /\ proc' = table
                    /\ LET shell_pid == table["launcher"]
                           ppid == table[shell_pid]
                       IN  IF ppid = "unreadable"
                           THEN \* Process::new(..).unwrap().stat().unwrap()
                                /\ Panic
                                /\ launch' = Launching(application, <<"ancestry">>)
                                /\ UNCHANGED <<restored, terminal_pid, children>>
                           ELSE /\ terminal_pid' = <<ppid>>
                                /\ UNCHANGED restored
                                /\ \E fork_ok \in BOOLEAN :
                                     IF fork_ok
                                     THEN /\ pc' = "poll"
                                          /\ children' =
                                               Append(children, Forked(<<ppid>>, application))
                                          /\ launch' = Launching(application,
                                                                 <<"ancestry", "fork">>)
                                          /\ UNCHANGED exit_status
                                     ELSE \* Err(_) => todo!()
                                          /\ Panic
                                          /\ launch' = Launching(application,
                                                 <<"ancestry", "fork", "fork_failed">>)
                                          /\ UNCHANGED children

\* The parent's arm of the fork in Launcher::select_application: one
\* waitpid(child, WNOHANG) and the arm of the match it selects.
Launcher_poll ==
  /\ program = "launcher"
  /\ pc = "poll"
  /\ polls' = polls + 1
  /\ last_wait' = waitpid(child)
  /\ UNCHANGED <<env, program, ui, mode, restored, proc, terminal_pid, sleeps>>
  /\ CASE waitpid(child) = "StillAlive" ->
            \* let _ = kill(Pid::from_raw(terminal_pid), SIGTERM); exit(0)
            /\ signals' = Append(signals, Signal(kill_target(terminal_pid, proc), "SIGTERM",
                                                  "launcher", launch.app[1]))
            /\ launch' = Step(launch, <<"signal">>)
            /\ IF kill_target(terminal_pid, proc) = "pid0"
               THEN \* kill(0, ..) signals the caller's own process group
                    /\ pc' = "killed"
                    /\ exit_status' = <<143>>
                    /\ children' = SetChild(IF child \in {"forked", "loop"}
                                             THEN "exited" ELSE child)
               ELSE /\ pc' = "exited"
                    /\ exit_status' = <<0>>
                    /\ UNCHANGED children
       [] waitpid(child) = "Exited" ->
            \* _ => thread::sleep(..): the status was collected
            /\ children' = SetChild("reaped")
            /\ pc' = "sleep"
            /\ UNCHANGED <<exit_status, signals, launch>>
       [] waitpid(child) = "Err" ->
            \* Err(_) => todo!()
            /\ Panic
            /\ UNCHANGED <<children, signals, launch>>

\* thread::sleep(Duration::from_millis(10)), then the loop polls again.
Launcher_sleep ==
  /\ program = "launcher"
  /\ pc = "sleep"
  /\ sleeps' = sleeps + 1
  /\ pc' = "poll"
  /\ UNCHANGED <<env, program, ui, mode, exit_status, restored, proc, terminal_pid,
                 children, signals, last_wait, polls, launch>>

\* The child's arm of the fork in Launcher::select_application:
\* let _ = execvp(..).  On success the child is the target; on failure the
\* match ends, select_application returns and the child is in Launcher::run.
Launcher_child_exec ==
  /\ program = "launcher"
  /\ child = "forked"
  /\ \E exec_ok \in BOOLEAN :
       children' = [children EXCEPT ![Len(children)] =
                      [@ EXCEPT !.state = IF exec_ok THEN "target" ELSE "loop",
                                !.exec = IF exec_ok THEN "ok" ELSE "failed",
                                !.exec_at = polls]]
  /\ UNCHANGED <<env, program, ui, mode, pc, exit_status, restored, proc, terminal_pid,
                 signals, last_wait, polls, sleeps, launch>>

\* The child ends: the target finishes, or the copy of the front end quits.
Child_exit ==
  /\ \E k \in 1..Len(children) :
       /\ children[k].state \in {"target", "loop"}
       /\ children' = [children EXCEPT ![k].state = "exited"]
  /\ UNCHANGED <<env, program, ui, mode, pc, exit_status, restored, proc, terminal_pid,
                 signals, last_wait, polls, sleeps, launch>>

\* App::select_app, from KeyCode::Enter up to and including the fork.
App_select_app ==
  /\ program = "app"
  /\ AwaitingKey
  /\ UNCHANGED <<env, program, ui, mode, signals, last_wait, polls, sleeps>>
  /\ IF selected = None
     THEN /\ pc' = "draw"
          /\ launch' = NoLaunch
          /\ UNCHANGED <<exit_status, restored, proc, terminal_pid, children>>
     ELSE IF selected[1] >= Len(filtered_applications)
     THEN /\ Panic
          /\ launch' = NoLaunch
          /\ UNCHANGED <<restored, proc, terminal_pid, children>>
     ELSE LET app == filtered_applications[selected[1] + 1] IN
          IF is_terminal_app(app)
          THEN \* ratatui::restore(); let _ = Command::new(&app.exec).exec()
               /\ restored' = TRUE
               /\ launch' = Launching(app, <<"restore", "exec">>)
               /\ \E exec_ok \in BOOLEAN :
                    pc' = IF exec_ok THEN "replaced" ELSE "draw"
               /\ UNCHANGED <<exit_status, proc, terminal_pid, children>>
          ELSE \* `ps -o ppid= -p <pid>` run by the shell
               /\ Len(children) < MaxForks
               /\ \E table \in ProcTables, ps \in {"spawn_failed", "empty", "ppid"} :
                    /\ proc' = table
                    /\ IF ps = "spawn_failed"
                       THEN \* .expect("unable to get ppid")
                            /\ Panic
                            /\ launch' = Launching(app, <<"ancestry">>)
                            /\ UNCHANGED <<restored, terminal_pid, children>>
                       ELSE LET ppid == IF ps = "ppid" THEN <<table["launcher"]>> ELSE <<>>
                            IN
                            /\ terminal_pid' = ppid
                            /\ UNCHANGED restored
                            /\ \E fork_ok \in BOOLEAN :
                                 IF fork_ok
                                 THEN /\ pc' = "app_exec"
                                      /\ children' = Append(children, Forked(ppid, app))
                                      /\ launch' = Launching(app, <<"ancestry", "fork">>)
                                      /\ UNCHANGED exit_status
                                 ELSE \* Err(_) => panic!("fork failed")
                                      /\ Panic
                                      /\ launch' = Launching(app,
                                             <<"ancestry", "fork", "fork_failed">>)
                                      /\ UNCHANGED children

\* Fork::Parent in App::select_app: exec the shell on "<exec> & disown".
\* When exec fails select_app returns to the loop.
App_parent_exec ==
  /\ program = "app"
  /\ pc = "app_exec"
  /\ \E exec_ok \in BOOLEAN : pc' = IF exec_ok THEN "replaced" ELSE "draw"
  /\ launch' = Step(launch, <<"parent_exec">>)
  /\ UNCHANGED <<env, program, ui, mode, exit_status, restored, os>>

\* The pid the child passes to `kill -9`: the output of ps the parent
\* captured before the fork, which the child holds a copy of.
child_kill_pid_lookup(c, table) == <<table["launcher"]>>
child_kill_pid(c, table) == c.ppid

\* Fork::Child in App::select_app: sleep .1, ratatui::restore(), then
\* `kill -9 <ppid>` through the shell; afterwards select_app returns and the
\* child is in App::run.  A shell that cannot be started panics the child.
App_child_kill ==
  /\ program = "app"
  /\ \E k \in 1..Len(children) :
       /\ children[k].state = "forked"
       /\ \E spawn_ok \in BOOLEAN :
            IF spawn_ok
            THEN /\ restored' = TRUE
                 /\ signals' = IF child_kill_pid(children[k], proc) = <<>> THEN signals
                               ELSE Append(signals,
                                           Signal(child_kill_pid(children[k], proc)[1],
                                                  "SIGKILL", "child", children[k].app))
                 /\ children' = [children EXCEPT ![k].state = "loop"]
            ELSE /\ children' = [children EXCEPT ![k].state = "exited"]
                 /\ UNCHANGED <<restored, signals>>
  /\ UNCHANGED <<env, program, ui, mode, pc, exit_status, proc, terminal_pid,
                 last_wait, polls, sleeps, launch>>

\* ---------------------------------------------------------- specification
Next ==
  \/ Quit
  \/ Notify
  \/ Launcher_reload
  \/ Launcher_draw
  \/ App_draw
  \/ \E c \in TypedAlphabet : KeyChar(c)
  \/ KeyBackspace
  \/ KeyDelete
  \/ KeyLeft
  \/ KeyRight
  \/ KeyDown
  \/ KeyUp
  \/ KeyEsc
  \/ KeyOther
  \/ Launcher_select_application
  \/ Launcher_poll
  \/ Launcher_sleep
  \/ Launcher_child_exec
  \/ Child_exit
  \/ App_select_app
  \/ App_parent_exec
  \/ App_child_kill

Spec == Init /\ [][Next]_vars

\* ------------------------------------- the selection on any terminal size
\* The session on a terminal of any size: the list may be given no cell, and
\* a resize changes that.  Spec runs on a terminal that shows the list.
InitSelect ==
  /\ program \in {"launcher", "app"}
  /\ applications \in Catalogs
  /\ filtered_applications = applications
  /\ selected = None
  /\ input = IF program = "launcher" THEN InputState_default
             ELSE [InputState_default EXCEPT !.width = 0]
  /\ area_width \in IF program = "launcher" THEN 1..MaxWidth ELSE {0}
  /\ mode = "Running"
  /\ pc = "draw"
  /\ exit_status = <<>>
  /\ restored = FALSE
  /\ proc = [launcher |-> "shell", shell |-> "terminal", terminal |-> "init", init |-> "pid0"]
  /\ terminal_pid = <<>>
  /\ children = <<>>
  /\ signals = <<>>
  /\ last_wait = "none"
  /\ polls = 0
  /\ sleeps = 0
  /\ launch = NoLaunch
  /\ fs = NoFileSystem
  /\ config = "c1"
  /\ pending = 0
  /\ loads = <<>>
  /\ list_area_empty \in BOOLEAN

\* Event::Resize: handle_input ignores the event, the next draw lays the
\* widgets out on the new size.
Resize ==
  /\ AwaitingKey
  /\ list_area_empty' = ~list_area_empty
  /\ pc' = "draw"
  /\ UNCHANGED <<program, ui, mode, exit_status, restored, os, launch,
                 fs, config, pending, loads>>

NextSelect ==
  \/ Quit
  \/ Launcher_draw
  \/ App_draw
  \/ Resize
  \/ \E c \in TypedAlphabet : KeyChar(c)
  \/ KeyBackspace
  \/ KeyDelete
  \/ KeyLeft
  \/ KeyRight
  \/ KeyDown
  \/ KeyUp
  \/ KeyEsc
  \/ KeyOther
  \/ Launcher_select_application
  \/ App_select_app

SpecSelect == InitSelect /\ [][NextSelect]_vars

\* --------------------------------------------- the input state on its own
\* The characters typed into the input on its own: one-byte ones and one
\* that takes two bytes.
InputAlphabet == {"a", "b", WideChar}

\* InputState::default, with the width the input is drawn at; the width
\* stays what it is.
InitInput ==
  /\ program = "launcher"
  /\ applications = <<>>
  /\ filtered_applications = applications
  /\ selected = None
  /\ area_width \in 0..MaxWidth
  /\ input = [InputState_default EXCEPT !.width = area_width]
  /\ mode = "Running"
  /\ pc = "edit"
  /\ exit_status = <<>>
  /\ restored = FALSE
  /\ proc = [launcher |-> "shell", shell |-> "terminal", terminal |-> "init", init |-> "pid0"]
  /\ terminal_pid = <<>>
  /\ children = <<>>
  /\ signals = <<>>
  /\ last_wait = "none"
  /\ polls = 0
  /\ sleeps = 0
  /\ launch = NoLaunch
  /\ fs = NoFileSystem
  /\ config = "c1"
  /\ pending = 0
  /\ loads = <<>>
  /\ list_area_empty = FALSE

\* What an operation of InputState leaves alone.
InputDone ==
  UNCHANGED <<env, program, applications, filtered_applications, selected, area_width,
              mode, restored, os, launch>>

\* InputState::enter_char
Input_enter_char(c) ==
  /\ pc = "edit"
  /\ Len(input.filter) < MaxFilterLen
  /\ input' = enter_char(input, c)
  /\ UNCHANGED <<pc, exit_status>>
  /\ InputDone

\* InputState::delete_char
Input_delete_char ==
  /\ pc = "edit"
  /\ input' = delete_char(input)
  /\ UNCHANGED <<pc, exit_status>>
  /\ InputDone

\* InputState::right_delete_char
Input_right_delete_char ==
  /\ pc = "edit"
  /\ IF right_delete_char_panics(input)
     THEN Panic /\ UNCHANGED input
     ELSE input' = right_delete_char(input) /\ UNCHANGED <<pc, exit_status>>
  /\ InputDone

\* InputState::move_cursor_left
Input_move_cursor_left ==
  /\ pc = "edit"
  /\ input' = move_cursor_left(input)
  /\ UNCHANGED <<pc, exit_status>>
  /\ InputDone

\* InputState::move_cursor_right
Input_move_cursor_right ==
  /\ pc = "edit"
  /\ input' = move_cursor_right(input)
  /\ UNCHANGED <<pc, exit_status>>
  /\ InputDone

NextInput ==
  \/ \E c \in InputAlphabet : Input_enter_char(c)
  \/ Input_delete_char
  \/ Input_right_delete_char
  \/ Input_move_cursor_left
  \/ Input_move_cursor_right

SpecInput == InitInput /\ [][NextInput]_vars

\* ------------------------------------------------- the filter on its own
\* The catalogs and filter texts the filter is run on: every catalog of up to
\* MaxApps entries with non-empty names of up to MaxNameLen characters, the
\* path of an entry being its position in the catalog.
FilterCatalogs ==
  UNION {{[i \in 1..n |-> Application(names[i], FALSE, i)] :
            names \in [1..n -> Strings(NameAlphabet, 1, MaxNameLen)]} : n \in 0..MaxApps}

InitFilter ==
  /\ program \in {"launcher", "app"}
  /\ applications \in FilterCatalogs
  /\ filtered_applications = applications
  /\ selected = None
  /\ \E text \in Strings(Alphabet, 0, MaxFilterLen) :
       input = [InputState_default EXCEPT !.filter = text,
                                          !.width = IF program = "launcher" THEN @ ELSE 0]
  /\ area_width = 0
  /\ mode = "Running"
  /\ pc = "filter"
  /\ exit_status = <<>>
  /\ restored = FALSE
  /\ proc = [launcher |-> "shell", shell |-> "terminal", terminal |-> "init", init |-> "pid0"]
  /\ terminal_pid = <<>>
  /\ children = <<>>
  /\ signals = <<>>
  /\ last_wait = "none"
  /\ polls = 0
  /\ sleeps = 0
  /\ launch = NoLaunch
  /\ fs = NoFileSystem
  /\ config = "c1"
  /\ pending = 0
  /\ loads = <<>>
  /\ list_area_empty = FALSE

\* ApplicationListState::update(filter)
Filter_update ==
  /\ program = "launcher"
  /\ pc = "filter"
  /\ filtered_applications' = update(applications, input.filter)
  /\ pc' = "filtered"
  /\ UNCHANGED <<env, program, applications, selected, input, area_width, mode,
                 exit_status, restored, os, launch>>

\* The filter and sort of <&mut App as Widget>::render
Filter_render ==
  /\ program = "app"
  /\ pc = "filter"
  /\ filtered_applications' = render_filter(applications, input.filter)
  /\ pc' = "filtered"
  /\ UNCHANGED <<env, program, applications, selected, input, area_width, mode,
                 exit_status, restored, os, launch>>

NextFilter == Filter_update \/ Filter_render

SpecFilter == InitFilter /\ [][NextFilter]_vars

\* ------------------------------------------- the catalog builder on its own
\* What fs::read_dir yields for one directory entry: an Err ("error"), a
\* path that is not a regular file with the extension desktop ("other"), a
\* descriptor DesktopEntry::from_file returns None for ("rejected"), or one
\* it parses ("app", with the Name it holds).
BaseNames == {"a", "b"}

DirEntries ==
  {[base |-> b, kind |-> k, name |-> <<>>] :
     b \in BaseNames, k \in {"error", "other", "rejected"}}
  \cup {[base |-> b, kind |-> "app", name |-> n] :
          b \in BaseNames, n \in Strings(NameAlphabet, 1, 1)}

\* A directory: absent or not a directory ("missing"), present but
\* fs::read_dir fails ("unreadable"), or readable with up to MaxFiles
\* entries of distinct file names, in the order read_dir yields them.
Directories ==
  {[status |-> st, entries |-> <<>>] : st \in {"missing", "unreadable"}}
  \cup UNION {{[status |-> "ok", entries |-> es] :
                 es \in {e \in [1..n -> DirEntries] :
                           \A i, j \in 1..n : e[i].base = e[j].base => i = j}} :
              n \in 0..MaxFiles}

\* dirs: "/usr/share/applications/", then "$HOME/.local/share/applications/"
FileSystems == [home : BOOLEAN, dirs : [1..2 -> Directories]]

\* DesktopEntry::from_file(path)
from_file(d, e) ==
  IF e.kind = "app" THEN Some(Application(e.name, FALSE, <<d, e.base>>)) ELSE None

\* path.is_file() && path.extension() == Some("desktop")
is_desktop_file(e) == e.kind \in {"rejected", "app"}

\* for entry in fs::read_dir(path)...: the entries of directory d from the
\* i-th on, apps being the vector built so far.
RECURSIVE scan_entries(_, _, _, _)
scan_entries(entries, d, i, apps) ==
  IF i > Len(entries) THEN [panicked |-> FALSE, apps |-> apps]
  ELSE IF entries[i].kind = "error"
  THEN \* entry.expect("unable to read entry")
       [panicked |-> TRUE, apps |-> apps]
  ELSE IF is_desktop_file(entries[i]) /\ from_file(d, entries[i]) # None
  THEN scan_entries(entries, d, i + 1, Append(apps, from_file(d, entries[i])[1]))
  ELSE scan_entries(entries, d, i + 1, apps)

\* for dir in dirs, from the d-th directory on.
RECURSIVE scan_dirs(_, _, _)
scan_dirs(dirs, d, apps) ==
  IF d > Len(dirs) THEN [panicked |-> FALSE, apps |-> apps]
  ELSE IF dirs[d].status = "missing"
  THEN \* path.exists() && path.is_dir() is false
       scan_dirs(dirs, d + 1, apps)
  ELSE IF dirs[d].status = "unreadable"
  THEN \* fs::read_dir(path).expect("unable to read target directory")
       [panicked |-> TRUE, apps |-> apps]
  ELSE LET r == scan_entries(dirs[d].entries, d, 1, apps)
       IN  IF r.panicked THEN r ELSE scan_dirs(dirs, d + 1, r.apps)

\* App::get_desktop_apps
get_desktop_apps(f) ==
  IF ~f.home
  THEN \* env::var("HOME").expect("unable to read $HOME env")
       [panicked |-> TRUE, apps |-> <<>>]
  ELSE scan_dirs(f.dirs, 1, <<>>)

InitCatalog ==
  /\ program = "app"
  /\ fs \in FileSystems
  /\ applications = <<>>
  /\ filtered_applications = <<>>
  /\ selected = None
  /\ input = [InputState_default EXCEPT !.width = 0]
  /\ area_width = 0
  /\ mode = "Running"
  /\ pc = "new"
  /\ exit_status = <<>>
  /\ restored = FALSE
  /\ proc = [launcher |-> "shell", shell |-> "terminal", terminal |-> "init", init |-> "pid0"]
  /\ terminal_pid = <<>>
  /\ children = <<>>
  /\ signals = <<>>
  /\ last_wait = "none"
  /\ polls = 0
  /\ sleeps = 0
  /\ launch = NoLaunch
  /\ config = "c1"
  /\ pending = 0
  /\ loads = <<>>
  /\ list_area_empty = FALSE

\* App::new: the catalog is built once, by get_desktop_apps.
App_new ==
  /\ pc = "new"
  /\ LET r == get_desktop_apps(fs)
     IN  IF r.panicked
         THEN Panic /\ UNCHANGED <<applications, filtered_applications>>
         ELSE /\ applications' = r.apps
              /\ filtered_applications' = r.apps
              /\ pc' = "built"
              /\ UNCHANGED exit_status
  /\ UNCHANGED <<env, program, selected, input, area_width, mode, restored, os, launch>>

NextCatalog == App_new

SpecCatalog == InitCatalog /\ [][NextCatalog]_vars

\* ------------------------------------------------- properties: filter
\* name contains text when case is ignored, said position by position.
ContainsIgnoringCase(name, text) ==
  \E off \in 0..(Len(name) - Len(text)) :
    \A j \in 1..Len(text) : LowerChar(name[off + j]) = LowerChar(text[j])

\* s is not after t in lexicographic order of code points.
LexLeq(s, t) ==
  \E k \in 0..Min(Len(s), Len(t)) :
    /\ \A i \in 1..k : s[i] = t[i]
    /\ \/ k = Len(s)
       \/ k < Len(s) /\ k < Len(t) /\ Code(s[k + 1]) < Code(t[k + 1])

Filtered == pc = "filtered"

Range(seq) == {seq[i] : i \in 1..Len(seq)}

\* C8: the filter result holds exactly the catalog entries whose name contains
\* the filter text as a case-insensitive substring, each once; with the empty
\* filter text it holds every entry.
C8_ExactMatches ==
  Filtered =>
    /\ Range(filtered_applications) =
         {a \in Range(applications) : ContainsIgnoringCase(a.name, input.filter)}
    /\ Len(filtered_applications) = Cardinality(Range(filtered_applications))
    /\ input.filter = <<>> => Len(filtered_applications) = Len(applications)

\* C8 witness: a filter ran that kept one entry and dropped another, the kept
\* one matching only when case is ignored.
C8_Witness ==
  /\ Filtered
  /\ input.filter # <<>>
  /\ Len(filtered_applications) = 1
  /\ Len(applications) = 2
  /\ ~contains(filtered_applications[1].name, input.filter)

\* C9: in the result of ApplicationListState::update and of App's render-time
\* filter, adjacent entries are in ascending order of their lowercased names.
C9_SortedIgnoringCase ==
  Filtered =>
    \A i \in 1..(Len(filtered_applications) - 1) :
      LexLeq(to_lowercase(filtered_applications[i].name),
             to_lowercase(filtered_applications[i + 1].name))

\* C10: the result is fully determined by (catalog, filter text): its entries
\* are in strictly ascending order of (lowercased name, catalog position), so
\* entries whose names are equal when case is ignored keep their catalog
\* order and any two runs on the same inputs give the same sequence.
C10_Determined ==
  (Filtered /\ program = "launcher") =>
    \A i \in 1..(Len(filtered_applications) - 1) :
      LET a == filtered_applications[i]
          b == filtered_applications[i + 1]
      IN  /\ LexLeq(to_lowercase(a.name), to_lowercase(b.name))
          /\ to_lowercase(a.name) = to_lowercase(b.name) => a.path < b.path

\* C10 witness: update returned two entries whose names are equal when case
\* is ignored.
C10_Witness ==
  /\ Filtered
  /\ program = "launcher"
  /\ Len(filtered_applications) = 2
  /\ to_lowercase(filtered_applications[1].name) = to_lowercase(filtered_applications[2].name)

\* ------------------------------------------------- properties: launch
InLoop == pc \in {"draw", "reloaded", "input"}

\* The launcher process is in a Detach: it has selected a graphical
\* application and looked up or forked for it.
Detaching == launch.app # <<>> /\ ~launch.app[1].terminal

\* The copy made by the latest fork.
LatestChild == children[Len(children)]

\* C1 (Scenario D): in a Detach of the Launcher whose lookup resolved a
\* process and whose poll found the child still running, exactly one signal
\* has been sent, it is SIGTERM to the pid the lookup resolved before the
\* fork, and the launcher has exited with status 0.
C1_ScenarioD ==
  (program = "launcher" /\ last_wait = "StillAlive" /\ terminal_pid # <<"pid0">>) =>
    /\ Detaching
    /\ signals = <<Signal(terminal_pid[1], "SIGTERM", "launcher", launch.app[1])>>
    /\ terminal_pid = <<proc[proc["launcher"]]>>
    /\ LatestChild.ppid = terminal_pid
    /\ pc = "exited"
    /\ exit_status = <<0>>

\* C1 witness: the child exec'd the target before the poll and is still running
\* it, the terminal emulator got the signal, the launcher exited with 0.
C1_Witness ==
  /\ program = "launcher"
  /\ last_wait = "StillAlive"
  /\ LatestChild.state = "target"
  /\ LatestChild.exec_at = 0
  /\ signals # <<>>
  /\ signals[1].to = "terminal"
  /\ exit_status = <<0>>

\* C2 (Scenario C): in a Detach of the Launcher where the child's exec failed
\* before the parent polled, no signal is ever sent and the launcher neither
\* exits nor crashes: it is polling or back in its interactive loop.
C2_ScenarioC ==
  (program = "launcher" /\ children # <<>> /\ LatestChild.exec = "failed"
     /\ LatestChild.exec_at = 0) =>
    /\ signals = <<>>
    /\ pc \in {"poll", "sleep", "draw", "input"}

\* C3: in a Detach of the Launcher a signal is sent only after a status check
\* that reported the child still running; once a check has reported that the
\* child exited, or has returned an error, no signal is sent and the launch
\* ends as a failure, not as a crash.
C3_SignalOnlyIfAlive ==
  program = "launcher" =>
    /\ signals # <<>> => last_wait = "StillAlive"
    /\ last_wait \in {"Exited", "Err"} => (signals = <<>> /\ pc # "panicked")

\* The ancestry lookup of the Launcher's launch in progress failed: the
\* shell's entry could not be read, or the parent chain ended before two hops.
AncestryFailed ==
  /\ program = "launcher"
  /\ Detaching
  /\ "ancestry" \in launch.steps
  /\ proc[proc["launcher"]] \in {"unreadable", "pid0"}

\* C4: when the ancestry lookup of a Detach fails the launcher does not crash
\* and no signal is sent to any process.
C4_AncestryFailureIsSafe ==
  AncestryFailed => (pc # "panicked" /\ pc # "killed" /\ signals = <<>>)

\* C5: a selection with the terminal flag set only restores the terminal and
\* execs in place (no lookup, no fork, no signal); a selection without it
\* never takes those two steps, starts with the lookup and goes on to the
\* fork whenever the lookup returns; copies and signals exist only for
\* selections without the flag.
C5_LaunchRouting ==
  /\ launch.app # <<>> =>
       IF launch.app[1].terminal
       THEN launch.steps = {"restore", "exec"} /\ restored
       ELSE /\ launch.steps \cap {"restore", "exec"} = {}
            /\ "ancestry" \in launch.steps
            /\ "fork" \in launch.steps \/ pc = "panicked"
  /\ \A k \in 1..Len(children) : ~children[k].app.terminal
  /\ \A k \in 1..Len(signals) : ~signals[k].app.terminal
  /\ pc \in {"poll", "sleep", "app_exec", "killed"} => Detaching

\* C5 witness: one run in which a terminal application was launched in place
\* after an earlier graphical one was forked for.
C5_Witness ==
  /\ launch.app # <<>>
  /\ launch.app[1].terminal
  /\ pc = "replaced"
  /\ children # <<>>

\* C6: after the exec of a ReplaceInPlace was attempted the process is never
\* back in the interactive loop: it is the target, or it has ended with a
\* nonzero status.
C6_ExecFailureIsFatal ==
  (launch.app # <<>> /\ launch.app[1].terminal /\ "exec" \in launch.steps) =>
    /\ restored
    /\ \/ pc = "replaced"
       \/ exit_status # <<>> /\ exit_status # <<0>>

\* C7: when the fork of a Detach fails no signal is sent and the launcher is
\* back in its interactive loop.
C7_ForkFailureReturns ==
  "fork_failed" \in launch.steps => (InLoop /\ exit_status = <<>> /\ signals = <<>>)

\* ------------------------------------------------ properties: catalog
Built == pc = "built"

\* The positions of the built catalog that came from a file named base.
EntriesOf(base) == {i \in 1..Len(applications) : applications[i].path[2] = base}

\* The scanned directories, in list order, holding a descriptor named base
\* that the parser accepts.
DirsWith(base) ==
  {d \in 1..Len(fs.dirs) :
     \E i \in 1..Len(fs.dirs[d].entries) :
       fs.dirs[d].entries[i].base = base /\ fs.dirs[d].entries[i].kind = "app"}

\* C11: the built catalog holds at most one entry per base filename, and that
\* entry comes from the user's directory (the second of the list, the one
\* that takes precedence) whenever that directory holds a descriptor of that
\* name.
C11_Deduplicated ==
  Built =>
    \A base \in BaseNames :
      /\ Cardinality(EntriesOf(base)) <= 1
      /\ \A i \in EntriesOf(base) :
           \A d \in DirsWith(base) : applications[i].path[1] >= d

\* C12: with $HOME set, building the catalog never panics, whatever the
\* directories and their entries are, and every descriptor the parser
\* accepts in a readable directory is in the built catalog.
C12_ErrorsAreSkipped ==
  fs.home =>
    /\ pc # "panicked"
    /\ Built =>
         \A base \in BaseNames : \A d \in DirsWith(base) :
           \E i \in EntriesOf(base) : applications[i].path[1] = d

\* ------------------------------------------- properties: launch protocol
\* The positions of step name in the order of the launch in progress.
StepsAt(name) == {i \in 1..Len(launch.order) : launch.order[i] = name}

\* C13: in every Detach the ancestry lookup is made, and made before the
\* fork: no lookup follows the fork in the parent, and a copy made by fork
\* signals only the pid it was handed by the parent's lookup.
C13_LookupBeforeFork ==
  /\ Detaching =>
       /\ StepsAt("fork") # {} => StepsAt("ancestry") # {}
       /\ \A i \in StepsAt("fork") : \A j \in StepsAt("ancestry") : j < i
  /\ \A n \in 1..Len(signals) :
       signals[n].from = "child" =>
         \E k \in 1..Len(children) :
           children[k].app = signals[n].app /\ children[k].ppid = <<signals[n].to>>

\* C13 witness: after the fork of a Detach both copies went on, the parent
\* to its exec and the child to its kill, with the pid looked up before.
C13_Witness ==
  /\ Detaching
  /\ launch.order = <<"ancestry", "fork", "parent_exec">>
  /\ signals # <<>>
  /\ signals[1].from = "child"
  /\ signals[1].to = LatestChild.ppid[1]

\* C14: every signal of a Detach goes to the parent of the launcher's parent
\* in the process table the lookup read, never to the launcher's direct
\* parent, to the launcher, or to the process group the launcher and its
\* child are in.
C14_SignalsTerminalOnly ==
  \A n \in 1..Len(signals) :
    /\ signals[n].to = proc[proc["launcher"]]
    /\ signals[n].to # proc["launcher"]
    /\ signals[n].to \notin {"launcher", "pid0"}

\* C15: in a Detach of the Launcher a signal is sent only after the grace
\* window: the parent slept at least once after the fork and the check that
\* found the child still running came after that sleep.
C15_SignalAfterGrace ==
  (program = "launcher" /\ signals # <<>>) => (sleeps >= 1 /\ polls >= 2)

\* C16: once the Launcher has forked for a Detach the parent is polling or
\* sleeping, or it has reached one of two outcomes: success (a signal was
\* sent and it exited with status 0) or failure (no signal was sent and it is
\* back in its interactive loop).
C16_TwoOutcomes ==
  (program = "launcher" /\ Detaching /\ "fork" \in launch.steps) =>
    \/ pc \in {"poll", "sleep"}
    \/ pc = "exited" /\ exit_status = <<0>> /\ signals # <<>>
    \/ InLoop /\ exit_status = <<>> /\ signals = <<>>

\* C17: in one Detach of the Launcher the parent makes at most two status
\* checks, and exactly one sleep lies between two consecutive checks: the
\* sleeps made equal the checks made when the next check is due, and are one
\* fewer after a check.
C17_BoundedPoll ==
  program = "launcher" =>
    /\ polls <= 2
    /\ sleeps = IF pc = "poll" \/ polls = 0 THEN polls ELSE polls - 1

\* C17 witness: the poll loop went round: check, sleep, second check.
C17_Witness ==
  /\ program = "launcher"
  /\ Detaching
  /\ polls = 2
  /\ sleeps = 1
  /\ last_wait = "Err"

\* C18: whenever a key is awaited, so whenever Enter can be handled, the
\* filtered list is the filter of the catalog by the current filter text.
C18_ViewIsCurrent ==
  AwaitingKey =>
    filtered_applications =
      IF program = "launcher" THEN update(applications, input.filter)
      ELSE render_filter(applications, input.filter)

\* C19: a reload is handled only at the top of the Launcher's loop in Running
\* mode; it sets the configuration to the one loaded, so that loading the
\* same configuration again changes nothing, and it leaves the catalog, the
\* filtered view, the selection, the filter text and the cursor as they were.
C19_ReloadKeepsSession ==
  [][loads' # loads =>
       /\ program = "launcher" /\ pc = "draw" /\ mode = "Running"
       /\ mode' = "Running"
       /\ config' = loads'[Len(loads')]
       /\ (loads # <<>> /\ loads'[Len(loads')] = loads[Len(loads)]) => config' = config
       /\ UNCHANGED <<applications, filtered_applications, selected, input>>]_vars

\* C19 witness: in a session with filter text and a selection, a second
\* reload loaded the configuration the first one had loaded.
C19_Witness ==
  /\ pc = "reloaded"
  /\ Len(loads) = 2
  /\ loads[1] = loads[2]
  /\ config # "c1"
  /\ input.filter # <<>>
  /\ input.cursor_index > 0
  /\ selected # None

\* C20: no copy made by a fork of the Launcher is ever in the interactive
\* loop: it is the target application, or it has ended.
C20_OneLauncher ==
  program = "launcher" =>
    \A k \in 1..Len(children) : children[k].state # "loop"

\* ---------------------------------------------- properties: selection
\* C21: whenever a key is awaited, so whenever Enter can be handled, nothing
\* is selected or the selected index is inside the filtered list.
C21_SelectionInBounds ==
  AwaitingKey => (selected = None \/ selected[1] < Len(filtered_applications))

\* ------------------------------------------------- properties: input
Editing == pc = "edit"

\* The text holds one-byte characters only.
OneByteText == \A i \in 1..Len(input.filter) : input.filter[i] # WideChar

\* C22: after any sequence of InputState operations at a fixed width the
\* cursor is within min(characters, width), the overflow within
\* max(len - width, 0) and their sum within the length of the text, and no
\* operation has panicked on the position it removes at.
C22_CursorInsideText ==
  /\ pc # "panicked"
  /\ Editing =>
       /\ input.cursor_index <= Min(Len(input.filter), input.width)
       /\ input.overflow <= saturating_sub(len(input.filter), input.width)
       /\ input.cursor_index + input.overflow <= len(input.filter)

\* C23, for one-byte characters at a width of at least 1: from every state
\* the operations reach, enter_char(c) followed by delete_char gives back
\* the filter text and the logical cursor position cursor_index + overflow.
C23_InsertBackspaceRoundTrip ==
  (Editing /\ OneByteText /\ input.width >= 1) =>
    \A c \in InputAlphabet \ {WideChar} :
      LET after == delete_char(enter_char(input, c))
      IN  /\ after.filter = input.filter
          /\ after.cursor_index + after.overflow = input.cursor_index + input.overflow

====
